---- MODULE Spec2Model ----
(***************************************************************************)
(* Model of the weather demo service: the settings object                  *)
(* (app/core/config.py), the WeatherService singleton                      *)
(* (app/services/weather_service.py) and the four weather routes           *)
(* (app/api/routes/weather.py).                                            *)
(*                                                                         *)
(* Units.  Table temperatures and settings.max_temperature are in tenths   *)
(* of a degree (72.5 -> 725).  The heat-index inputs are floats that are   *)
(* multiples of 1/8 (exactly representable, so the float arithmetic        *)
(* t + 0.5 * h is exact): they are carried in eighths, the sum in          *)
(* sixteenths, and the rounded result in hundredths.                       *)
(* A Python dict is a sequence of [key, val] entries in insertion order;   *)
(* a dict value handed out by dict.get is a reference to the stored        *)
(* object, modelled as the position of the entry holding it (0: None).     *)
(***************************************************************************)
EXTENDS Integers, Sequences, FiniteSets, TLC

VARIABLES weather_data, settings, now, held, last

vars == <<weather_data, settings, now, held, last>>

(* ---------------------------------------------------------------- bounds *)

\* number of microseconds the clock may advance in a behaviour
MaxTicks == 1

(* ------------------------------------------------------------- constants *)

MaxTemperatureDefault == 1000
UsPerSec == 1000000
TempGe == -400
TempLe == 1200
HumidityGe == 0
HumidityLe == 800

\* the clock starts one microsecond before a full second, so that a tick
\* crosses the boundary at which isoformat() drops the fraction
StartClock == UsPerSec - 1

None == [none |-> TRUE]

WarningText == "Temperature exceeds maximum threshold!"

NotFoundPrefix == "Weather data not found for city: "

(* -------------------------------------------------------------- settings *)

DefaultSettings ==
    [app_name |-> "Weather API", debug |-> FALSE,
     api_version |-> "v1", max_temperature |-> MaxTemperatureDefault]

\* Settings() reads each field from the environment, falling back to the
\* default; these are the environments explored.
SettingsEnvs ==
    { DefaultSettings,
      [app_name |-> "Demo", debug |-> TRUE,
       api_version |-> "v2", max_temperature |-> 725] }

(* ---------------------------------------------------------- Python dicts *)

\* a lookup that folds case and surrounding blanks before comparing
FoldKey(k) == IF k \in {"london", "London "} THEN "London" ELSE k

DictFindFolded(d, k) ==
    IF \E i \in 1..Len(d) : d[i].key = FoldKey(k)
    THEN CHOOSE i \in 1..Len(d) : d[i].key = FoldKey(k)
    ELSE 0

\* a lookup that hands out the neighbouring entry
DictFindShifted(d, k) ==
    IF \E i \in 1..Len(d) : d[i].key = k
    THEN ((CHOOSE i \in 1..Len(d) : d[i].key = k) % Len(d)) + 1
    ELSE 0

\* the position of the entry whose key equals k, 0 when there is none
DictFind(d, k) ==
    IF \E i \in 1..Len(d) : d[i].key = k
    THEN CHOOSE i \in 1..Len(d) : d[i].key = k
    ELSE 0

\* the object a reference designates
Deref(d, ref) == IF ref = 0 THEN None ELSE d[ref].val

\* the keys in reverse insertion order
DictKeysReversed(d) == [i \in 1..Len(d) |-> d[Len(d) + 1 - i].key]

\* list(dict.keys()): the keys in insertion order
DictKeys(d) == [i \in 1..Len(d) |-> d[i].key]

\* rec[field] = value on a record (a dict with string keys)
SetItem(rec, field, value) ==
    [f \in DOMAIN rec \cup {field} |-> IF f = field THEN value ELSE rec[f]]

\* weather[field] = value, where weather is a reference handed out by
\* dict.get: the assignment lands in the object the table holds
StoreItem(d, ref, field, value) ==
    [d EXCEPT ![ref].val = SetItem(@, field, value)]

\* Python truthiness of a dict.get result: None and {} are false
Truthy(v) == v # None /\ DOMAIN v # {}

(* ------------------------------------------------------------ seed table *)

SeedData ==
    << [key |-> "New York",
        val |-> [temp |-> 725, humidity |-> 65, condition |-> "Partly Cloudy"]],
       [key |-> "London",
        val |-> [temp |-> 590, humidity |-> 78, condition |-> "Rainy"]],
       [key |-> "Tokyo",
        val |-> [temp |-> 683, humidity |-> 55, condition |-> "Sunny"]],
       [key |-> "Sydney",
        val |-> [temp |-> 779, humidity |-> 60, condition |-> "Clear"]] >>

\* the keys the table is built with
SeedKeySet == {SeedData[i].key : i \in 1..Len(SeedData)}

(* ----------------------------------------------------------------- clock *)

\* datetime.isoformat(): the microsecond part is left out when it is zero
IsoFormat(clk) ==
    IF clk % UsPerSec = 0 THEN <<clk \div UsPerSec>>
    ELSE <<clk \div UsPerSec, clk % UsPerSec>>

\* the instant an isoformat string denotes, in microseconds
IsoInstant(ts) == ts[1] * UsPerSec + (IF Len(ts) = 2 THEN ts[2] ELSE 0)

(* ------------------------------------------------------- WeatherService *)

NotFoundMessage(city) == NotFoundPrefix \o city

\* the threshold test with >= in place of >
ExceedsMaxOrEqual(weather, st) == weather.temp >= st.max_temperature

ExceedsMax(weather, st) == weather.temp > st.max_temperature

\* WeatherService.get_weather: the outcome and the table it leaves behind
GetWeather(table, st, clk, city) ==
    LET weather == DictFind(table, city) IN
    IF ~Truthy(Deref(table, weather))
    THEN [kind |-> "raise", msg |-> NotFoundMessage(city), table |-> table]
    ELSE LET t1 == IF ExceedsMax(Deref(table, weather), st)
                   THEN StoreItem(table, weather, "warning", WarningText)
                   ELSE table
             t2 == StoreItem(t1, weather, "timestamp", IsoFormat(clk))
             t3 == StoreItem(t2, weather, "city", city)
         IN  [kind |-> "return", ref |-> weather, table |-> t3]

\* truncation to the hundredth below in place of rounding
Round2Floor(num, den) == (100 * num) \div den

\* round(x, 2) of a float x given exactly as num/den (den > 0): Python rounds
\* the exact binary value correctly, ties going to the even hundredth.
\* The result is in hundredths.
Round2(num, den) ==
    LET q == (100 * num) \div den
        r == (100 * num) % den
    IN  IF 2 * r < den THEN q
        ELSE IF 2 * r > den THEN q + 1
        ELSE IF q % 2 = 0 THEN q ELSE q + 1

\* temperature + (0.5 * humidity), inputs in eighths, the sum in sixteenths
HeatSum(temperature, humidity) == 2 * temperature + humidity

\* WeatherService.calculate_heat_index, result in hundredths
CalculateHeatIndex(temperature, humidity) ==
    Round2(HeatSum(temperature, humidity), 16)

(* ----------------------------------------------------------- HTTP layer *)

\* the constraint with gt/lt in place of ge/le
QueryInRangeStrict(v, lo, hi) == v > lo /\ v < hi

\* Query(..., ge=lo, le=hi): the constraint the framework enforces before
\* the route function is called
QueryInRange(v, lo, hi) == v >= lo /\ v <= hi

\* the JSON spelling of a bool
PyStrLower(b) == IF b THEN "true" ELSE "false"

\* str(bool)
PyStr(b) == IF b THEN "True" ELSE "False"

(* ---------------------------------------------------------------- inputs *)

Cities == SeedKeySet \cup {"london", "London ", "", "InvalidCity"}

\* heat-index arguments, in eighths
Temps8 == {-401, -400, 1, 600, 1200, 1600}

Hums8 == {-1, 0, 4, 480, 800, 1200}

\* the heat-index arguments used where the table is the subject
FewTemps8 == {600, 1600}

FewHums8 == {480}

Slots == {1, 2}

Other(s) == 3 - s

(* ----------------------------------------------------------------- state *)

Init ==
    /\ weather_data = SeedData
    /\ settings \in SettingsEnvs
    /\ now = StartClock
    /\ held = [s \in Slots |-> 0]
    /\ last = [op |-> "start"]

\* the wall clock advances between calls
Tick ==
    /\ now < StartClock + MaxTicks
    /\ now' = now + 1
    /\ UNCHANGED <<weather_data, settings, held, last>>

\* r_s = weather_service.get_weather(city), called directly on the singleton;
\* held[s] is the reference the caller keeps in r_s, and last.prevSlot names
\* the variable assigned by the immediately preceding call when that call
\* was a successful get_weather for the same city (0 otherwise)
ServiceGetWeather(s, city) ==
    LET out == GetWeather(weather_data, settings, now, city) IN
    /\ weather_data' = out.table
    /\ IF out.kind = "return"
       THEN /\ held' = [held EXCEPT ![s] = out.ref]
            /\ last' = [op |-> "get_weather", kind |-> "return", city |-> city,
                        slot |-> s,
                        prevSlot |-> IF /\ last.op = "get_weather"
                                        /\ last.kind = "return"
                                        /\ last.city = city
                                        /\ last.slot # s
                                     THEN last.slot ELSE 0]
       ELSE /\ held' = held
            /\ last' = [op |-> "get_weather", kind |-> "raise", city |-> city,
                        exc |-> "ValueError", msg |-> out.msg]
    /\ UNCHANGED <<settings, now>>

\* weather_service.get_available_cities()
ServiceGetAvailableCities ==
    /\ last' = [op |-> "get_available_cities", kind |-> "return",
                value |-> DictKeys(weather_data)]
    /\ UNCHANGED <<weather_data, settings, now, held>>

\* weather_service.calculate_heat_index(temperature, humidity)
ServiceCalculateHeatIndex(temperature, humidity) ==
    /\ last' = [op |-> "calculate_heat_index", kind |-> "return",
                temperature |-> temperature, humidity |-> humidity,
                value |-> CalculateHeatIndex(temperature, humidity)]
    /\ UNCHANGED <<weather_data, settings, now, held>>

\* GET /api/v1/weather/?city=<city>: the route calls the service and the
\* returned dict is serialised into the response body
HttpGetWeather(city) ==
    LET out == GetWeather(weather_data, settings, now, city) IN
    /\ weather_data' = out.table
    /\ last' = IF out.kind = "return"
               THEN [op |-> "GET /weather/", kind |-> "http",
                     has_city |-> TRUE, city |-> city,
                     status |-> 200, body |-> Deref(out.table, out.ref)]
               ELSE [op |-> "GET /weather/", kind |-> "http",
                     has_city |-> TRUE, city |-> city,
                     status |-> 404, body |-> [detail |-> out.msg]]
    /\ UNCHANGED <<settings, now, held>>

\* GET /api/v1/weather/ without the required city parameter
HttpGetWeatherNoCity ==
    /\ last' = [op |-> "GET /weather/", kind |-> "http", has_city |-> FALSE,
                status |-> 422, body |-> [detail |-> <<"city">>]]
    /\ UNCHANGED <<weather_data, settings, now, held>>

\* GET /api/v1/weather/cities
HttpGetAvailableCities ==
    /\ last' = [op |-> "GET /weather/cities", kind |-> "http",
                status |-> 200, body |-> DictKeys(weather_data)]
    /\ UNCHANGED <<weather_data, settings, now, held>>

\* GET /api/v1/weather/heat-index?temperature=<t>&humidity=<h>
HttpCalculateHeatIndex(temperature, humidity) ==
    LET tOk == QueryInRange(temperature, TempGe, TempLe)
        hOk == QueryInRange(humidity, HumidityGe, HumidityLe)
        bad == (IF tOk THEN <<>> ELSE <<"temperature">>)
               \o (IF hOk THEN <<>> ELSE <<"humidity">>)
    IN
    /\ last' = IF tOk /\ hOk
               THEN [op |-> "GET /weather/heat-index", kind |-> "http",
                     temperature |-> temperature, humidity |-> humidity,
                     service_called |-> TRUE, status |-> 200,
                     body |-> [temperature |-> temperature,
                               humidity |-> humidity,
                               heat_index |->
                                   CalculateHeatIndex(temperature, humidity)]]
               ELSE [op |-> "GET /weather/heat-index", kind |-> "http",
                     temperature |-> temperature, humidity |-> humidity,
                     service_called |-> FALSE, status |-> 422,
                     body |-> [detail |-> bad]]
    /\ UNCHANGED <<weather_data, settings, now, held>>

\* GET /api/v1/weather/info
HttpGetApiInfo ==
    /\ last' = [op |-> "GET /weather/info", kind |-> "http", status |-> 200,
                body |-> [app_name |-> settings.app_name,
                          version |-> settings.api_version,
                          debug_mode |-> PyStr(settings.debug)]]
    /\ UNCHANGED <<weather_data, settings, now, held>>

Next ==
    \/ Tick
    \/ \E s \in Slots, city \in Cities : ServiceGetWeather(s, city)
    \/ ServiceGetAvailableCities
    \/ \E t \in FewTemps8, h \in FewHums8 : ServiceCalculateHeatIndex(t, h)
    \/ \E city \in Cities : HttpGetWeather(city)
    \/ HttpGetWeatherNoCity
    \/ HttpGetAvailableCities
    \/ \E t \in FewTemps8, h \in FewHums8 : HttpCalculateHeatIndex(t, h)
    \/ HttpGetApiInfo

Spec == Init /\ [][Next]_vars

\* the heat-index calls over the full argument sets, interleaved with
\* weather requests
NextHeat ==
    \/ Tick
    \/ \E city \in Cities : HttpGetWeather(city)
    \/ \E t \in Temps8, h \in Hums8 : ServiceCalculateHeatIndex(t, h)
    \/ \E t \in Temps8, h \in Hums8 : HttpCalculateHeatIndex(t, h)

SpecHeat == Init /\ [][NextHeat]_vars

(* ---------------------------------------------------------------- claims *)

\* the seed temperature/humidity/condition of a seed city
SeedValue(city) ==
    CASE city = "New York" ->
             [temp |-> 725, humidity |-> 65, condition |-> "Partly Cloudy"]
      [] city = "London" ->
             [temp |-> 590, humidity |-> 78, condition |-> "Rainy"]
      [] city = "Tokyo" ->
             [temp |-> 683, humidity |-> 55, condition |-> "Sunny"]
      [] city = "Sydney" ->
             [temp |-> 779, humidity |-> 60, condition |-> "Clear"]

\* the last operation was a successful direct get_weather call
ServiceReturned == last.op = "get_weather" /\ last.kind = "return"

\* the last operation was a weather-by-city request answered 200
HttpReturned ==
    last.op = "GET /weather/" /\ last.has_city /\ last.status = 200

\* the record the last successful direct get_weather call returned
LastRecord == Deref(weather_data, held[last.slot])

HasWarning(r) == "warning" \in DOMAIN r

\* C1: get_weather never changes the table: every entry stays exactly its
\* seed entry (no warning, timestamp or city is stored in it).
C1_TableKeepsSeed == weather_data = SeedData

\* C2: the record handed to one request is not changed by another request's
\* get_weather call: as long as a caller keeps the record it was given, the
\* record reads the same after any other caller's weather request.
C2_RecordNotShared ==
    [][\A s \in Slots :
          ( /\ held[s] # 0
            /\ held'[s] = held[s]
            /\ last' # last
            /\ \/ last'.op = "GET /weather/"
               \/ last'.op = "get_weather" /\ last'.kind = "return"
                                           /\ last'.slot # s )
          => Deref(weather_data', held[s]) = Deref(weather_data, held[s])]_vars

\* C3: a city that is not exactly one of the four seed keys makes
\* get_weather raise the not-found error with the message
\* "Weather data not found for city: " + city, makes the endpoint answer 404
\* with that message as detail, and the failing call changes neither the
\* table nor any record handed out earlier.
C3_UnknownCityNotFound ==
    [][ /\ (last'.op = "get_weather" /\ last'.city \notin SeedKeySet)
           => /\ last'.kind = "raise"
              /\ last'.exc = "ValueError"
              /\ last'.msg = "Weather data not found for city: " \o last'.city
              /\ weather_data' = weather_data
              /\ held' = held
        /\ ( /\ last'.op = "GET /weather/"
             /\ last'.has_city
             /\ last'.city \notin SeedKeySet )
           => /\ last'.status = 404
              /\ last'.body =
                   [detail |-> "Weather data not found for city: "
                                   \o last'.city]
              /\ weather_data' = weather_data
              /\ held' = held ]_vars

\* a near-miss of a seed key has just been answered 404, after earlier
\* successful calls had been made
C3_Witness ==
    /\ last.op = "GET /weather/"
    /\ last.has_city
    /\ last.city = "london"
    /\ last.status = 404
    /\ held[1] # 0

\* C4: for a seed city, after any earlier calls, get_weather succeeds and
\* the record has city = the input and the seed temperature, humidity and
\* condition of that city.
C4_SeedCityRecord ==
    /\ (last.op = "get_weather" /\ last.city \in SeedKeySet)
          => /\ last.kind = "return"
             /\ LastRecord.city = last.city
             /\ LastRecord.temp = SeedValue(last.city).temp
             /\ LastRecord.humidity = SeedValue(last.city).humidity
             /\ LastRecord.condition = SeedValue(last.city).condition
    /\ (last.op = "GET /weather/" /\ last.has_city /\ last.city \in SeedKeySet)
          => /\ last.status = 200
             /\ last.body.city = last.city
             /\ last.body.temp = SeedValue(last.city).temp
             /\ last.body.humidity = SeedValue(last.city).humidity
             /\ last.body.condition = SeedValue(last.city).condition

\* Tokyo has just been returned to a caller while the other caller holds a
\* record from an earlier call and the clock has moved
C4_Witness ==
    /\ ServiceReturned
    /\ last.city = "Tokyo"
    /\ held[Other(last.slot)] # 0
    /\ now > StartClock

\* C5: a returned record carries the warning (the fixed advisory string)
\* exactly when its temperature is strictly above settings.max_temperature,
\* whatever calls came before.
C5_WarningIffAboveMax ==
    /\ ServiceReturned
          => /\ HasWarning(LastRecord)
                   <=> SeedValue(last.city).temp > settings.max_temperature
             /\ HasWarning(LastRecord)
                   => LastRecord.warning
                        = "Temperature exceeds maximum threshold!"
    /\ HttpReturned
          => /\ HasWarning(last.body)
                   <=> SeedValue(last.city).temp > settings.max_temperature
             /\ HasWarning(last.body)
                   => last.body.warning
                        = "Temperature exceeds maximum threshold!"

\* a record with the warning has just been returned, right after a call for
\* the same city
C5_Witness ==
    /\ ServiceReturned
    /\ last.prevSlot # 0
    /\ HasWarning(LastRecord)

\* C6: get_available_cities returns New York, London, Tokyo, Sydney in that
\* order on every call, whatever calls preceded it.
C6_CitiesInSeedOrder ==
    /\ last.op = "get_available_cities"
          => last.value = <<"New York", "London", "Tokyo", "Sydney">>
    /\ last.op = "GET /weather/cities"
          => /\ last.status = 200
             /\ last.body = <<"New York", "London", "Tokyo", "Sydney">>

\* the cities have just been listed after weather calls that wrote to every
\* entry of the table
C6_Witness ==
    /\ last.op = "get_available_cities"
    /\ \A i \in 1..Len(weather_data) :
           "timestamp" \in DOMAIN weather_data[i].val

\* C7: the heat-index endpoint answers 422 without calling the service when
\* temperature is outside -50..150 or humidity outside 0..100, and 200 with
\* both inputs echoed and the computed heat index exactly when both are in
\* range (bounds included).
C7_HeatIndexValidation ==
    last.op = "GET /weather/heat-index"
      => LET t == last.temperature
             h == last.humidity
             inRange == t >= -50 * 8 /\ t <= 150 * 8 /\ h >= 0 /\ h <= 100 * 8
         IN  /\ ~inRange => last.status = 422 /\ ~last.service_called
             /\ inRange => /\ last.status = 200
                           /\ last.service_called
                           /\ last.body.temperature = t
                           /\ last.body.humidity = h
                           /\ last.body.heat_index = CalculateHeatIndex(t, h)
             /\ last.status \in {200, 422}

\* a request on both inclusive bounds has just been answered 200
C7_Witness ==
    /\ last.op = "GET /weather/heat-index"
    /\ last.temperature = -50 * 8
    /\ last.humidity = 100 * 8
    /\ last.status = 200

\* C8: calculate_heat_index returns temperature + 0.5 * humidity rounded to
\* the nearest hundredth, changes no service state, and gives 105.0 for
\* (75, 60).
C8_HeatIndexFormula ==
    [][last'.op = "calculate_heat_index"
         => LET t == last'.temperature
                h == last'.humidity
                \* 16 * 100 * (value - (t/8 + 0.5 * h/8)), value in hundredths
                err == 16 * last'.value - 100 * (2 * t + h)
            IN  /\ err >= -8 /\ err <= 8
                /\ (t = 75 * 8 /\ h = 60 * 8) => last'.value = 10500
                /\ weather_data' = weather_data
                /\ held' = held
                /\ settings' = settings]_vars

\* a sum that is not a whole number of hundredths has just been rounded,
\* after weather requests had written to the table
C8_Witness ==
    /\ last.op = "calculate_heat_index"
    /\ (100 * (2 * last.temperature + last.humidity)) % 16 # 0
    /\ weather_data # SeedData

\* C9: two consecutive get_weather calls for the same city return records
\* whose timestamps differ, the second not earlier than the first, and
\* whose other fields are identical.
C9_ConsecutiveTimestampsDiffer ==
    (ServiceReturned /\ last.prevSlot # 0)
      => LET first == Deref(weather_data, held[last.prevSlot])
             second == Deref(weather_data, held[last.slot])
         IN  /\ first.timestamp # second.timestamp
             /\ IsoInstant(first.timestamp) <= IsoInstant(second.timestamp)
             /\ DOMAIN first = DOMAIN second
             /\ \A f \in DOMAIN first \ {"timestamp"} : first[f] = second[f]

\* C10 as stated: the info endpoint answers 200 with the settings' app_name
\* and version and with debug_mode "true" or "false"; under the default
\* configuration app_name is "Weather API" and debug_mode is "false".
C10_InfoDebugLowercase ==
    last.op = "GET /weather/info"
      => /\ last.status = 200
         /\ last.body.app_name = settings.app_name
         /\ last.body.version = settings.api_version
         /\ last.body.debug_mode = (IF settings.debug THEN "true" ELSE "false")
         /\ settings = DefaultSettings
               => /\ last.body.app_name = "Weather API"
                  /\ last.body.debug_mode = "false"

\* C10 amended: the info endpoint answers 200 with the settings' app_name
\* and version and with debug_mode "True" when debug is on and "False" when
\* it is off; under the default configuration app_name is "Weather API" and
\* debug_mode is "False".
C10_InfoDebugPythonStr ==
    last.op = "GET /weather/info"
      => /\ last.status = 200
         /\ last.body.app_name = settings.app_name
         /\ last.body.version = settings.api_version
         /\ last.body.debug_mode = (IF settings.debug THEN "True" ELSE "False")
         /\ settings = DefaultSettings
               => /\ last.body.app_name = "Weather API"
                  /\ last.body.debug_mode = "False"

\* the info endpoint has just answered under the default configuration
C10_Witness ==
    /\ last.op = "GET /weather/info"
    /\ settings = DefaultSettings
    /\ last.body.debug_mode = "False"

====
